---- MODULE Spec2Model ----
(***************************************************************************)
(* Model of the multi-server MCP client of src/client/client.go            *)
(* (type MultiClient, lines 800-1033): one session per configured server,  *)
(* a registry of sessions (clients), per-server records (serverDetails)    *)
(* and a routing table from tool name to server name (toolToServer).       *)
(*                                                                         *)
(* Strings that the code takes apart (tool identifiers, server names, tool *)
(* names) are sequences of one-character strings.  A session is an         *)
(* external object: every operation on it may succeed or fail.             *)
(***************************************************************************)
EXTENDS Integers, Sequences, FiniteSets, TLC

\* ---------------------------------------------------------------- bounds
MaxIdLen == 3
MaxTools == 1
MaxNotes == 1

\* ------------------------------------------------------------- universes
\* names a configuration may give to a server; one of them is also the name
\* of a tool
Servers == {<<"p">>, <<"e">>}

\* names a server may give to a tool ("p" as pull_image, "g" as get_pods)
ToolNames == {<<"p">>, <<"g">>}

\* characters of a tool identifier handed to CallTool
Alphabet == {"p", "."}

Identifiers == UNION {[1..n -> Alphabet] : n \in 0..MaxIdLen}

\* a tool catalog as returned by one ListTools call ([]mcp.Tool, by name);
\* a server names each of its tools once
Catalogs ==
    UNION {{c \in [1..n -> ToolNames] : \A i, j \in 1..n : i # j => c[i] # c[j]} : n \in 0..MaxTools}

\* the result of a handshake with server `name` (mcp.InitializeResult, by
\* its ServerInfo); the nil *mcp.InitializeResult is <<>>
InitializeResult(name) == <<"ServerInfo", name>>

\* argument mappings handed to CallTool (map[string]any)
ArgMaps == {[k \in {"image"} |-> "redis:latest"]}

\* the orders in which a range over a map with key set S may visit it
Perms(S) == {s \in [1..Cardinality(S) -> S] : \A i, j \in 1..Cardinality(S) : i # j => s[i] # s[j]}

EmptyMap == [k \in {} |-> <<>>]

\* m[k] = v on a Go map
MapPut(m, k, v) == [x \in (DOMAIN m) \cup {k} |-> IF x = k THEN v ELSE m[x]]

\* ----------------------------------------------------------------- state
VARIABLES phase, clients, serverDetails, toolToServer, op, arg, ret, calls, logs

vars == <<phase, clients, serverDetails, toolToServer, op, arg, ret, calls, logs>>

\* a configuration entry (ServerConfig): which of URL and Command are non-empty
ServerConfig == [url : BOOLEAN, command : BOOLEAN]

\* cfg.MCPServers: a map from server name to ServerConfig
Configs == UNION {[S -> ServerConfig] : S \in SUBSET Servers}

\* &ServerDetails{}
ServerDetails == [Tools |-> <<>>, Info |-> <<>>]

NoArg == [cfg |-> EmptyMap, tool |-> <<>>, args |-> [k \in {} |-> ""]]

NoRet == [err |-> "nil", msg |-> <<>>, isNil |-> TRUE, all |-> EmptyMap, report |-> <<>>]

Init ==
    /\ phase = "unbuilt"
    /\ clients = {}
    /\ serverDetails = EmptyMap
    /\ toolToServer = EmptyMap
    /\ op = "none"
    /\ arg = NoArg
    /\ ret = NoRet
    /\ calls = <<>>
    /\ logs = <<>>

\* one line written to the logger by log.Warnf, log.Errorf, log.Printf or
\* log.Infof: its level, the server it names (<<>> for none) and its text
LogLine(level, name, text) == [level |-> level, ep |-> name, text |-> text]

\* the warnings a loop writes, one for each failed session operation of cs,
\* in the order of the failures
RECURSIVE LogFailures(_, _)
LogFailures(cs, text) ==
    IF cs = <<>> THEN <<>>
    ELSE (IF Head(cs).ok THEN <<>> ELSE <<LogLine("warning", Head(cs).ep, text)>>) \o LogFailures(Tail(cs), text)

\* ------------------------------------------------------- NewMultiClient
\* NewLoop that goes on with the next server when a command transport cannot
\* be constructed, as StartAll does for a session that does not start
RECURSIVE NewLoop_AbsorbFailure(_, _, _, _)
NewLoop_AbsorbFailure(order, cfg, newOK, m) ==
    IF order = <<>> THEN m
    ELSE LET name == Head(order)
             sc == cfg[name]
         IN  IF sc.url
             THEN IF name \notin newOK
                  THEN [m EXCEPT !.err = "SSEClientError", !.stage = <<"SSE Client creation failed for", name>>,
                                 !.logs = Append(@, LogLine("error", <<>>, "creating client error")),
                                 !.calls = Append(@, [ep |-> name, method |-> "NewSSEMCPClient", ok |-> FALSE])]
                  ELSE NewLoop_AbsorbFailure(Tail(order), cfg, newOK,
                               [m EXCEPT !.clients = @ \cup {name},
                                         !.serverDetails = MapPut(@, name, ServerDetails),
                                         !.calls = Append(@, [ep |-> name, method |-> "NewSSEMCPClient", ok |-> TRUE])])
             ELSE IF sc.command
             THEN IF name \notin newOK
                  THEN NewLoop_AbsorbFailure(Tail(order), cfg, newOK,
                               [m EXCEPT !.serverDetails = MapPut(@, name, ServerDetails),
                                         !.calls = Append(@, [ep |-> name, method |-> "NewStdioMCPClient", ok |-> FALSE])])
                  ELSE NewLoop_AbsorbFailure(Tail(order), cfg, newOK,
                               [m EXCEPT !.clients = @ \cup {name},
                                         !.serverDetails = MapPut(@, name, ServerDetails),
                                         !.calls = Append(@, [ep |-> name, method |-> "NewStdioMCPClient", ok |-> TRUE])])
             ELSE [m EXCEPT !.err = "errorString", !.stage = <<"must have either url or command+args", name>>]

\* the loop of NewMultiClient over cfg.MCPServers, visited in `order`;
\* newOK is the set of servers whose transport can be constructed
RECURSIVE NewLoop(_, _, _, _)
NewLoop(order, cfg, newOK, m) ==
    IF order = <<>> THEN m
    ELSE LET name == Head(order)
             sc == cfg[name]
         IN  IF sc.url
             THEN IF name \notin newOK
                  THEN [m EXCEPT !.err = "SSEClientError", !.stage = <<"SSE Client creation failed for", name>>,
                                 !.logs = Append(@, LogLine("error", <<>>, "creating client error")),
                                 !.calls = Append(@, [ep |-> name, method |-> "NewSSEMCPClient", ok |-> FALSE])]
                  ELSE NewLoop(Tail(order), cfg, newOK,
                               [m EXCEPT !.clients = @ \cup {name},
                                         !.serverDetails = MapPut(@, name, ServerDetails),
                                         !.calls = Append(@, [ep |-> name, method |-> "NewSSEMCPClient", ok |-> TRUE])])
             ELSE IF sc.command
             THEN IF name \notin newOK
                  THEN [m EXCEPT !.err = "SSEClientError", !.stage = <<"STDIO Client creation failed for", name>>,
                                 !.serverDetails = MapPut(@, name, ServerDetails),
                                 !.calls = Append(@, [ep |-> name, method |-> "NewStdioMCPClient", ok |-> FALSE])]
                  ELSE NewLoop(Tail(order), cfg, newOK,
                               [m EXCEPT !.clients = @ \cup {name},
                                         !.serverDetails = MapPut(@, name, ServerDetails),
                                         !.calls = Append(@, [ep |-> name, method |-> "NewStdioMCPClient", ok |-> TRUE])])
             ELSE [m EXCEPT !.err = "errorString", !.stage = <<"must have either url or command+args", name>>]

NewMultiClient ==
    /\ phase = "unbuilt"
    /\ \E cfg \in Configs, newOK \in SUBSET Servers :
       \E order \in Perms(DOMAIN cfg) :
          LET m == NewLoop(order, cfg, newOK \cap DOMAIN cfg,
                           [clients |-> {}, serverDetails |-> EmptyMap, err |-> "nil", stage |-> <<>>,
                            calls |-> <<>>, logs |-> <<>>])
          IN  /\ phase' = IF m.err = "nil" THEN "built" ELSE "failed"
              /\ clients' = IF m.err = "nil" THEN m.clients ELSE {}
              /\ serverDetails' = IF m.err = "nil" THEN m.serverDetails ELSE EmptyMap
              /\ toolToServer' = EmptyMap
              /\ op' = "NewMultiClient"
              /\ arg' = [NoArg EXCEPT !.cfg = cfg]
              /\ ret' = [NoRet EXCEPT !.err = m.err, !.msg = m.stage, !.isNil = (m.err # "nil")]
              /\ calls' = m.calls
              /\ logs' = m.logs

\* ------------------------------------------------------------- StartAll
\* StartLoop without the delete of a server that failed to start
RECURSIVE StartLoop_KeepFailed(_, _, _)
StartLoop_KeepFailed(order, startOK, st) ==
    IF order = <<>> THEN st
    ELSE LET name == Head(order)
         IN  IF name \notin startOK
             THEN StartLoop_KeepFailed(Tail(order), startOK,
                            [st EXCEPT !.calls = Append(@, [ep |-> name, method |-> "Start", ok |-> FALSE])])
             ELSE StartLoop_KeepFailed(Tail(order), startOK,
                            [st EXCEPT !.upServers = Append(@, name),
                                       !.calls = Append(@, [ep |-> name, method |-> "Start", ok |-> TRUE])])

\* StartLoop without the continue after a failed start
RECURSIVE StartLoop_NoContinue(_, _, _)
StartLoop_NoContinue(order, startOK, st) ==
    IF order = <<>> THEN st
    ELSE LET name == Head(order)
         IN  IF name \notin startOK
             THEN StartLoop_NoContinue(Tail(order), startOK,
                            [st EXCEPT !.clients = @ \ {name},
                                       !.upServers = Append(@, name),
                                       !.calls = Append(@, [ep |-> name, method |-> "Start", ok |-> FALSE])])
             ELSE StartLoop_NoContinue(Tail(order), startOK,
                            [st EXCEPT !.upServers = Append(@, name),
                                       !.calls = Append(@, [ep |-> name, method |-> "Start", ok |-> TRUE])])

\* the loop of StartAll over m.clients, visited in `order`; startOK is the
\* set of servers whose session starts
RECURSIVE StartLoop(_, _, _)
StartLoop(order, startOK, st) ==
    IF order = <<>> THEN st
    ELSE LET name == Head(order)
         IN  IF name \notin startOK
             THEN StartLoop(Tail(order), startOK,
                            [st EXCEPT !.clients = @ \ {name},
                                       !.calls = Append(@, [ep |-> name, method |-> "Start", ok |-> FALSE])])
             ELSE StartLoop(Tail(order), startOK,
                            [st EXCEPT !.upServers = Append(@, name),
                                       !.calls = Append(@, [ep |-> name, method |-> "Start", ok |-> TRUE])])

StartAll ==
    /\ phase = "built"
    /\ \E order \in Perms(clients), startOK \in SUBSET clients :
          LET st == StartLoop(order, startOK, [clients |-> clients, upServers |-> <<>>, calls |-> <<>>])
          IN  /\ clients' = st.clients
              /\ op' = "StartAll"
              /\ arg' = NoArg
              /\ ret' = IF Len(st.upServers) = 0
                        THEN [NoRet EXCEPT !.err = "errorString", !.msg = <<"no servers running">>]
                        ELSE NoRet
              /\ calls' = st.calls
              /\ logs' = LogFailures(st.calls, "failed to start; marking as down") \o
                         (IF Len(st.upServers) = 0 THEN <<>>
                          ELSE <<LogLine("info", <<>>, "started successfully")>>)
    /\ UNCHANGED <<phase, serverDetails, toolToServer>>

\* -------------------------------------------------------- InitializeAll
\* InitLoop that stops at the first failed handshake instead of going on
RECURSIVE InitLoop_StopAtFailure(_, _, _)
InitLoop_StopAtFailure(order, initOK, st) ==
    IF order = <<>> THEN st
    ELSE LET name == Head(order)
         IN  IF name \notin initOK
             THEN [st EXCEPT !.clients = @ \ {name},
                             !.calls = Append(@, [ep |-> name, method |-> "Initialize", ok |-> FALSE, res |-> <<>>])]
             ELSE InitLoop_StopAtFailure(Tail(order), initOK,
                           [st EXCEPT !.serverDetails[name].Info = InitializeResult(name),
                                      !.inited = Append(@, name),
                                      !.calls = Append(@, [ep |-> name, method |-> "Initialize", ok |-> TRUE,
                                                           res |-> InitializeResult(name)])])

\* InitLoop without the delete of a server whose handshake failed
RECURSIVE InitLoop_KeepFailed(_, _, _)
InitLoop_KeepFailed(order, initOK, st) ==
    IF order = <<>> THEN st
    ELSE LET name == Head(order)
         IN  IF name \notin initOK
             THEN InitLoop_KeepFailed(Tail(order), initOK,
                           [st EXCEPT !.calls = Append(@, [ep |-> name, method |-> "Initialize", ok |-> FALSE, res |-> <<>>])])
             ELSE InitLoop_KeepFailed(Tail(order), initOK,
                           [st EXCEPT !.serverDetails[name].Info = InitializeResult(name),
                                      !.inited = Append(@, name),
                                      !.calls = Append(@, [ep |-> name, method |-> "Initialize", ok |-> TRUE,
                                                           res |-> InitializeResult(name)])])

\* the loop of InitializeAll over m.clients, visited in `order`; initOK is
\* the set of servers whose handshake succeeds
RECURSIVE InitLoop(_, _, _)
InitLoop(order, initOK, st) ==
    IF order = <<>> THEN st
    ELSE LET name == Head(order)
         IN  IF name \notin initOK
             THEN InitLoop(Tail(order), initOK,
                           [st EXCEPT !.clients = @ \ {name},
                                      !.calls = Append(@, [ep |-> name, method |-> "Initialize", ok |-> FALSE, res |-> <<>>])])
             ELSE InitLoop(Tail(order), initOK,
                           [st EXCEPT !.serverDetails[name].Info = InitializeResult(name),
                                      !.inited = Append(@, name),
                                      !.calls = Append(@, [ep |-> name, method |-> "Initialize", ok |-> TRUE,
                                                           res |-> InitializeResult(name)])])

InitializeAll ==
    /\ phase = "built"
    /\ \E order \in Perms(clients), initOK \in SUBSET clients :
          LET st == InitLoop(order, initOK,
                             [clients |-> clients, serverDetails |-> serverDetails, inited |-> <<>>, calls |-> <<>>])
          IN  /\ clients' = st.clients
              /\ serverDetails' = st.serverDetails
              /\ op' = "InitializeAll"
              /\ arg' = NoArg
              /\ ret' = IF Len(st.inited) = 0
                        THEN [NoRet EXCEPT !.err = "SSEClientStartError", !.msg = <<"No servers found, Initialization failed">>]
                        ELSE NoRet
              /\ calls' = st.calls
              /\ logs' = LogFailures(st.calls, "Initialization failed; dropping") \o
                         (IF Len(st.inited) = 0 THEN <<>>
                          ELSE <<LogLine("info", <<>>, "Initialized Server")>>)
    /\ UNCHANGED <<phase, toolToServer>>

\* ------------------------------------------------------ ListAllToolsRaw
\* SetOwner that keeps the owner a tool already has
RECURSIVE SetOwner_FirstWins(_, _, _)
SetOwner_FirstWins(t2s, tools, name) ==
    IF tools = <<>> THEN t2s
    ELSE SetOwner_FirstWins(IF Head(tools) \in DOMAIN t2s THEN t2s ELSE MapPut(t2s, Head(tools), name),
                            Tail(tools), name)

\* for _, t := range res.Tools { m.toolToServer[t.Name] = name }
RECURSIVE SetOwner(_, _, _)
SetOwner(t2s, tools, name) ==
    IF tools = <<>> THEN t2s
    ELSE SetOwner(MapPut(t2s, Head(tools), name), Tail(tools), name)

\* ListLoop that does not store the catalog in serverDetails
RECURSIVE ListLoop_NoCatalog(_, _, _, _)
ListLoop_NoCatalog(order, listOK, cat, st) ==
    IF order = <<>> THEN st
    ELSE LET name == Head(order)
         IN  IF name \notin listOK
             THEN [st EXCEPT !.err = "SSEClientError",
                             !.msg = <<"ListTools for", name>>,
                             !.calls = Append(@, [ep |-> name, method |-> "ListTools", ok |-> FALSE, tools |-> <<>>])]
             ELSE ListLoop_NoCatalog(Tail(order), listOK, cat,
                           [st EXCEPT !.all = MapPut(@, name, cat[name]),
                                      !.toolToServer = SetOwner(@, cat[name], name),
                                      !.calls = Append(@, [ep |-> name, method |-> "ListTools", ok |-> TRUE,
                                                           tools |-> cat[name]])])

\* ListLoop that skips a server whose ListTools failed, as StartAll does
RECURSIVE ListLoop_SkipFailed(_, _, _, _)
ListLoop_SkipFailed(order, listOK, cat, st) ==
    IF order = <<>> THEN st
    ELSE LET name == Head(order)
         IN  IF name \notin listOK
             THEN ListLoop_SkipFailed(Tail(order), listOK, cat,
                           [st EXCEPT !.calls = Append(@, [ep |-> name, method |-> "ListTools", ok |-> FALSE,
                                                           tools |-> <<>>])])
             ELSE ListLoop_SkipFailed(Tail(order), listOK, cat,
                           [st EXCEPT !.all = MapPut(@, name, cat[name]),
                                      !.serverDetails[name].Tools = cat[name],
                                      !.toolToServer = SetOwner(@, cat[name], name),
                                      !.calls = Append(@, [ep |-> name, method |-> "ListTools", ok |-> TRUE,
                                                           tools |-> cat[name]])])

\* ListLoop that takes back the routes it wrote when a ListTools fails
RECURSIVE ListLoop_RollBack(_, _, _, _)
ListLoop_RollBack(order, listOK, cat, st) ==
    IF order = <<>> THEN st
    ELSE LET name == Head(order)
         IN  IF name \notin listOK
             THEN [st EXCEPT !.err = "SSEClientError",
                             !.msg = <<"ListTools for", name>>,
                             !.toolToServer = toolToServer,
                             !.calls = Append(@, [ep |-> name, method |-> "ListTools", ok |-> FALSE, tools |-> <<>>])]
             ELSE ListLoop_RollBack(Tail(order), listOK, cat,
                           [st EXCEPT !.all = MapPut(@, name, cat[name]),
                                      !.serverDetails[name].Tools = cat[name],
                                      !.toolToServer = SetOwner(@, cat[name], name),
                                      !.calls = Append(@, [ep |-> name, method |-> "ListTools", ok |-> TRUE,
                                                           tools |-> cat[name]])])

\* the loop of ListAllToolsRaw over m.clients, visited in `order`; listOK is
\* the set of servers whose ListTools succeeds, cat[name] the catalog it returns
RECURSIVE ListLoop(_, _, _, _)
ListLoop(order, listOK, cat, st) ==
    IF order = <<>> THEN st
    ELSE LET name == Head(order)
         IN  IF name \notin listOK
             THEN [st EXCEPT !.err = "SSEClientError",
                             !.msg = <<"ListTools for", name>>,
                             !.calls = Append(@, [ep |-> name, method |-> "ListTools", ok |-> FALSE, tools |-> <<>>])]
             ELSE ListLoop(Tail(order), listOK, cat,
                           [st EXCEPT !.all = MapPut(@, name, cat[name]),
                                      !.serverDetails[name].Tools = cat[name],
                                      !.toolToServer = SetOwner(@, cat[name], name),
                                      !.calls = Append(@, [ep |-> name, method |-> "ListTools", ok |-> TRUE,
                                                           tools |-> cat[name]])])

\* ListStart with a routing table made anew for every discovery
ListStart_FreshRouting ==
    [all |-> EmptyMap, serverDetails |-> serverDetails, toolToServer |-> EmptyMap,
     err |-> "nil", msg |-> <<>>, calls |-> <<>>]

\* the state a call of ListAllToolsRaw starts its loop in
ListStart ==
    [all |-> EmptyMap, serverDetails |-> serverDetails, toolToServer |-> toolToServer,
     err |-> "nil", msg |-> <<>>, calls |-> <<>>]

ListAllToolsRaw ==
    /\ phase = "built"
    /\ \E order \in Perms(clients), listOK \in SUBSET clients :
       \E cat \in [listOK -> Catalogs] :
          LET st == ListLoop(order, listOK, cat, ListStart)
          IN  /\ serverDetails' = st.serverDetails
              /\ toolToServer' = st.toolToServer
              /\ op' = "ListAllToolsRaw"
              /\ arg' = NoArg
              /\ ret' = IF st.err # "nil"
                        THEN [NoRet EXCEPT !.err = st.err, !.msg = st.msg]
                        ELSE [NoRet EXCEPT !.isNil = FALSE, !.all = st.all]
              /\ calls' = st.calls
              /\ logs' = <<>>
    /\ UNCHANGED <<phase, clients>>

\* ListToolsJSON: ListAllToolsRaw, then json.MarshalIndent of its result
\* (marshalOK: whether the encoder accepts every tool of the catalog)
ListToolsJSON ==
    /\ phase = "built"
    /\ \E order \in Perms(clients), listOK \in SUBSET clients :
       \E cat \in [listOK -> Catalogs] :
          LET st == ListLoop(order, listOK, cat, ListStart)
          IN  /\ serverDetails' = st.serverDetails
              /\ toolToServer' = st.toolToServer
              /\ op' = "ListToolsJSON"
              /\ arg' = NoArg
              /\ IF st.err # "nil"
                 THEN ret' = [NoRet EXCEPT !.err = st.err, !.msg = st.msg]
                 ELSE \E marshalOK \in BOOLEAN :
                         ret' = IF ~marshalOK
                                THEN [NoRet EXCEPT !.err = "SSEClientError", !.msg = <<"Marshal tools">>]
                                ELSE [NoRet EXCEPT !.isNil = FALSE, !.all = st.all]
              /\ calls' = st.calls
              /\ logs' = IF st.err # "nil" THEN <<LogLine("info", <<>>, "error listing tools")>> ELSE <<>>
    /\ UNCHANGED <<phase, clients>>

\* ------------------------------------------------------------- CallTool
\* strings.Split(s, sep) for a one-character separator
RECURSIVE Split(_, _)
Split(s, sep) ==
    IF \A i \in 1..Len(s) : s[i] # sep THEN <<s>>
    ELSE LET i == CHOOSE k \in 1..Len(s) : s[k] = sep /\ \A j \in 1..(k - 1) : s[j] # sep
         IN  <<SubSeq(s, 1, i - 1)>> \o Split(SubSeq(s, i + 1, Len(s)), sep)

\* strings.Join(parts, sep)
RECURSIVE Join(_, _)
Join(parts, sep) ==
    IF parts = <<>> THEN <<>>
    ELSE IF Len(parts) = 1 THEN parts[1]
    ELSE parts[1] \o <<sep>> \o Join(Tail(parts), sep)

\* indent prefixes each line in s with prefix
indent(s, prefix) ==
    LET lines == Split(s, "\n")
    IN  Join([i \in 1..Len(lines) |-> <<prefix>> \o lines[i]], "\n")

\* content blocks of a call result: dyn is the dynamic type of the
\* mcp.Content value, the other fields are those of the struct
TextContent(tag) ==
    [dyn |-> "*mcp.TextContent", Type |-> tag, Text |-> <<"l1", "\n", "l2", "\n", "l3">>,
     Data |-> <<>>, MIMEType |-> ""]

ImageContent(data) ==
    [dyn |-> "*mcp.ImageContent", Type |-> "image", Text |-> <<>>, Data |-> data, MIMEType |-> "image/png"]

EmbeddedResource ==
    [dyn |-> "*mcp.EmbeddedResource", Type |-> "resource", Text |-> <<>>, Data |-> <<>>, MIMEType |-> ""]

\* results a session may return from CallTool (*mcp.CallToolResult)
CallResults ==
    { [IsError |-> FALSE, Content |-> <<>>],
      [IsError |-> FALSE, Content |-> <<TextContent("text")>>],
      [IsError |-> FALSE, Content |-> <<TextContent("Text")>>],
      [IsError |-> TRUE, Content |-> <<EmbeddedResource, ImageContent(<<"Q", "k">>)>>] }

\* fmt.Sprintf("%v", c) of a pointer to a content struct
FmtV(c) ==
    <<"&{{<nil>} ", c.Type, " ">> \o
    (IF c.dyn = "*mcp.TextContent" THEN c.Text
     ELSE IF c.dyn = "*mcp.ImageContent" THEN c.Data \o <<" ", c.MIMEType>>
     ELSE <<"{...}">>) \o <<"}">>

\* fmt.Sprintf("%#v", c)
FmtSharpV(c) == <<"&", c.dyn, "{", "Type:", c.Type, "}">>

\* the lines CallTool writes for content entry number i
RenderBlock(i, c) ==
    <<"  Content #", ToString(i), ":", "\n">> \o
    <<"  TextContent: ">> \o FmtV(c) \o <<"\n">> \o
    (IF c.dyn = "*mcp.TextContent"
     THEN IF c.Type = "Text"
          THEN <<"    Text:", "\n">> \o indent(c.Text, "      ") \o <<"\n">>
          ELSE <<>>
     ELSE IF c.dyn = "*mcp.ImageContent"
     THEN <<"    Type: image", "\n", "    MIMEType: ", c.MIMEType, "\n",
            "    Data length: ", ToString(Len(c.Data)), " bytes (base64)", "\n">>
     ELSE <<"    Unknown content type: ">> \o FmtSharpV(c) \o <<"\n">>)

\* RenderBlocks that gives up after a block of a type it does not know
RECURSIVE RenderBlocks_StopAtUnknown(_, _)
RenderBlocks_StopAtUnknown(i, content) ==
    IF i > Len(content) THEN <<>>
    ELSE IF content[i].dyn \notin {"*mcp.TextContent", "*mcp.ImageContent"}
    THEN RenderBlock(i, content[i])
    ELSE RenderBlock(i, content[i]) \o RenderBlocks_StopAtUnknown(i + 1, content)

\* for i, c := range res.Content, from entry i on
RECURSIVE RenderBlocks(_, _)
RenderBlocks(i, content) ==
    IF i > Len(content) THEN <<>>
    ELSE RenderBlock(i, content[i]) \o RenderBlocks(i + 1, content)

\* Report that writes "IsError: false" whatever the result says
Report_FlagAlwaysFalse(name, res) ==
    <<"Tool '">> \o name \o <<"' completed.", "\n">> \o
    <<"  IsError: ", ToString(FALSE), "\n">> \o
    (IF Len(res.Content) = 0
     THEN <<"  (no content returned)", "\n">>
     ELSE RenderBlocks(1, res.Content))

\* Report without the special case of a result that has no content
Report_NoEmptyCase(name, res) ==
    <<"Tool '">> \o name \o <<"' completed.", "\n">> \o
    <<"  IsError: ", ToString(res.IsError), "\n">> \o
    RenderBlocks(1, res.Content)

\* the report CallTool assembles for tool `name` and result res
Report(name, res) ==
    <<"Tool '">> \o name \o <<"' completed.", "\n">> \o
    <<"  IsError: ", ToString(res.IsError), "\n">> \o
    (IF Len(res.Content) = 0
     THEN <<"  (no content returned)", "\n">>
     ELSE RenderBlocks(1, res.Content))

\* whether ts[1] of the Go code (the second segment) exists
HasToolSegment(ts) == Len(ts) >= 2

\* ts[0] of the Go code: the first segment of the identifier
ToolSegment_First(ts) == ts[1]

\* ts[1] of the Go code: the second segment of the identifier
ToolSegment(ts) == ts[2]

\* CallToolRequest that leaves Params.Arguments unset
CallToolRequest_NoArguments(name, args) ==
    [Method |-> "tools/call", Name |-> name, Arguments |-> [k \in {} |-> ""]]

\* the mcp.CallToolRequest CallTool builds for tool `name` and arguments args
CallToolRequest(name, args) ==
    [Method |-> "tools/call", Name |-> name, Arguments |-> args]

\* the *mcp.CallToolResult of a failed call
NoResult == [IsError |-> FALSE, Content |-> <<>>]

\* SessionCalls that sends the request a second time when the first failed
SessionCalls_Retry(srv, req, ok, res) ==
    IF ok THEN <<[ep |-> srv, method |-> "CallTool", ok |-> ok, req |-> req, res |-> res]>>
    ELSE <<[ep |-> srv, method |-> "CallTool", ok |-> ok, req |-> req, res |-> res],
           [ep |-> srv, method |-> "CallTool", ok |-> ok, req |-> req, res |-> res]>>

\* the session operations of one CallTool: cli.CallTool(m.ctx, req), once,
\* on the session of srv; ok and res are what the session answers
SessionCalls(srv, req, ok, res) ==
    <<[ep |-> srv, method |-> "CallTool", ok |-> ok, req |-> req, res |-> res]>>

\* AfterCallTool with the routing table emptied by the call
AfterCallTool_RoutesCleared == <<clients, serverDetails, EmptyMap>>

\* the registry, the records of the servers and the routing table when
\* CallTool returns: the code reads m.toolToServer and m.clients and assigns
\* to no field of m
AfterCallTool == <<clients, serverDetails, toolToServer>>

\* CallTool(tool, args); a panic ends the process
CallToolOn(tool, args) ==
    LET ts == Split(tool, ".")
    IN  /\ op' = "CallTool"
        /\ arg' = [NoArg EXCEPT !.tool = tool, !.args = args]
        /\ logs' = <<>>
        /\ clients' = AfterCallTool[1]
        /\ serverDetails' = AfterCallTool[2]
        /\ toolToServer' = AfterCallTool[3]
        /\ IF ~HasToolSegment(ts)
           THEN \* ts[1]: index out of range
                /\ phase' = "crashed"
                /\ ret' = [NoRet EXCEPT !.err = "panic", !.msg = <<"index out of range">>]
                /\ calls' = <<>>
           ELSE IF ToolSegment(ts) \notin DOMAIN toolToServer
           THEN /\ phase' = phase
                /\ ret' = [NoRet EXCEPT !.err = "SSEClientError", !.msg = <<"CallTool", "no server for tool", ToolSegment(ts)>>]
                /\ calls' = <<>>
           ELSE LET srv == toolToServer[ToolSegment(ts)]
                    req == CallToolRequest(ToolSegment(ts), args)
                IN  IF srv \notin clients
                    THEN \* cli is nil: the call dereferences a nil *Client
                         /\ phase' = "crashed"
                         /\ ret' = [NoRet EXCEPT !.err = "panic", !.msg = <<"nil pointer dereference">>]
                         /\ calls' = <<>>
                    ELSE /\ phase' = phase
                         /\ \/ /\ ret' = [NoRet EXCEPT !.err = "SSEClientError", !.msg = <<"CallTool", "transport">>]
                               /\ calls' = SessionCalls(srv, req, FALSE, NoResult)
                            \/ \E res \in CallResults :
                                  /\ ret' = [NoRet EXCEPT !.isNil = FALSE, !.report = Report(ToolSegment(ts), res)]
                                  /\ calls' = SessionCalls(srv, req, TRUE, res)

CallTool ==
    /\ phase = "built"
    /\ \E tool \in Identifiers, args \in ArgMaps : CallToolOn(tool, args)

\* ---------------------------------------------------------------- Close
\* the loop of Close over m.clients, visited in `order`; closeOK is the set
\* of servers whose Close returns no error (the error is dropped)
RECURSIVE CloseLoop(_, _, _)
CloseLoop(order, closeOK, cs) ==
    IF order = <<>> THEN cs
    ELSE CloseLoop(Tail(order), closeOK,
                   Append(cs, [ep |-> Head(order), method |-> "Close", ok |-> Head(order) \in closeOK]))

\* the body of Close: one Close on the session of every registered server
CloseSessions ==
    /\ \E order \in Perms(clients), closeOK \in SUBSET clients :
          calls' = CloseLoop(order, closeOK, <<>>)
    /\ op' = "Close"
    /\ arg' = NoArg
    /\ ret' = NoRet
    /\ logs' = <<>>
    /\ UNCHANGED <<phase, clients, serverDetails, toolToServer>>

Close ==
    /\ phase = "built"
    /\ CloseSessions

Next ==
    \/ NewMultiClient
    \/ StartAll
    \/ InitializeAll
    \/ ListAllToolsRaw
    \/ ListToolsJSON
    \/ CallTool
    \/ Close

Spec == Init /\ [][Next]_vars

\* --------------------------------------------------------- notifications
\* the two lines the notification handler may write
NotificationTexts == {"[Notification] failed to decode params", "[Notification] result notification"}

\* the notification lines among the log lines written since the last handler
Notes == {i \in DOMAIN logs : logs[i].text \in NotificationTexts}

\* Notification that takes the server of an undecodable payload out of the
\* registry
Notification_DropsServer ==
    /\ phase = "built"
    /\ Cardinality(Notes) < MaxNotes
    /\ \E name \in DOMAIN serverDetails, decodable \in BOOLEAN :
          /\ logs' = Append(logs, LogLine("info", name,
                                          IF decodable THEN "[Notification] result notification"
                                          ELSE "[Notification] failed to decode params"))
          /\ clients' = IF decodable THEN clients ELSE clients \ {name}
    /\ UNCHANGED <<phase, serverDetails, toolToServer, op, arg, ret, calls>>

\* the handler registered with cli.OnNotification, called by the transport of
\* a constructed session at any time; `name` is the server name the closure
\* holds, decodable whether the payload unmarshals into {name, output}
Notification ==
    /\ phase = "built"
    /\ Cardinality(Notes) < MaxNotes
    /\ \E name \in DOMAIN serverDetails, decodable \in BOOLEAN :
          logs' = Append(logs, LogLine("info", name,
                                       IF decodable THEN "[Notification] result notification"
                                       ELSE "[Notification] failed to decode params"))
    /\ UNCHANGED <<phase, clients, serverDetails, toolToServer, op, arg, ret, calls>>

\* ----------------------------------------------------------------- main
\* main has just got a nil error from handler o
MainAt(o) == phase = "built" /\ op = o /\ ret.err = "nil"

\* cli.StartAll() of main
MainStartAll == MainAt("NewMultiClient") /\ StartAll

\* cli.InitializeAll() of main
MainInitializeAll == MainAt("StartAll") /\ InitializeAll

\* cli.ListToolsJSON() of main
MainListToolsJSON == MainAt("InitializeAll") /\ ListToolsJSON

\* cli.CallTool(tc.Tool, tc.Arguments) of main, with the tool call the
\* language model answered
MainCallTool == MainAt("ListToolsJSON") /\ CallTool

\* defer cli.Close(): runs when main returns ("No tool needed." or after the
\* result is printed) and when CallTool panics
MainDeferredClose ==
    /\ phase \in {"built", "crashed"}
    /\ \/ MainAt("ListToolsJSON")
       \/ op = "CallTool" /\ ret.err \in {"nil", "panic"}
    /\ CloseSessions

\* log.Fatal / log.Fatalf: the process exits at once and runs no deferred
\* call; after ListToolsJSON also the steps with the language model may end so
MainFatal ==
    /\ phase \in {"failed", "built"}
    /\ \/ op \in {"NewMultiClient", "StartAll", "InitializeAll", "ListToolsJSON", "CallTool"} /\ ret.err # "nil"
       \/ MainAt("ListToolsJSON")
    /\ phase' = "exited"
    /\ UNCHANGED <<clients, serverDetails, toolToServer, op, arg, ret, calls, logs>>

\* the process ends after the deferred Close
MainExit ==
    /\ phase \in {"built", "crashed"}
    /\ op = "Close"
    /\ phase' = "exited"
    /\ UNCHANGED <<clients, serverDetails, toolToServer, op, arg, ret, calls, logs>>

MainNext ==
    \/ NewMultiClient
    \/ MainStartAll
    \/ MainInitializeAll
    \/ MainListToolsJSON
    \/ MainCallTool
    \/ MainDeferredClose
    \/ MainFatal
    \/ MainExit
    \/ Notification

SpecMain == Init /\ [][MainNext]_vars

\* ------------------------------------------------------------ properties
Range(f) == {f[x] : x \in DOMAIN f}

\* the servers on whose session the last handler issued an operation
Visited == {calls[i].ep : i \in DOMAIN calls}

\* the servers whose session operation succeeded in the last handler
Succeeded == {calls[i].ep : i \in {j \in DOMAIN calls : calls[j].ok}}

\* the servers whose session operation failed in the last handler
Failed == {calls[i].ep : i \in {j \in DOMAIN calls : ~calls[j].ok}}

\* the "no servers running" error of StartAll
NoServersRunning == ret.err = "errorString" /\ ret.msg = <<"no servers running">>

\* the routing error of CallTool (SSEClientError{"CallTool", "no server for tool ..."})
RoutingError == ret.err = "SSEClientError" /\ Len(ret.msg) = 3 /\ ret.msg[2] = "no server for tool"

\* the segments of the identifier handed to the last CallTool
Segs == Split(arg.tool, ".")

\* C1: when at least one session starts, StartAll returns no error and the
\* registry holds exactly the servers whose start succeeded in this call:
\* no server whose start failed, and no server that was not started.
C1_StartAllKeepsStarted ==
    (op = "StartAll" /\ Succeeded # {}) =>
        /\ ret.err = "nil"
        /\ clients = Succeeded
        /\ Failed \cap clients = {}
        /\ Len(calls) = Cardinality(Visited)

C1_Witness ==
    /\ op = "StartAll"
    /\ Succeeded # {}
    /\ Failed # {}
    /\ ret.err = "nil"
    /\ clients = Succeeded

\* C2: StartAll returns the "no servers running" error exactly when no
\* session started (also for an empty registry), and then the registry is
\* empty.
C2_NoServersRunningIffNoneStarted ==
    op = "StartAll" =>
        /\ NoServersRunning <=> Succeeded = {}
        /\ ret.err # "nil" <=> NoServersRunning
        /\ NoServersRunning => clients = {}

C2_Witness ==
    /\ op = "StartAll"
    /\ Cardinality(Failed) = 2
    /\ NoServersRunning
    /\ clients = {}

\* C3: after InitializeAll the registry holds exactly the servers whose
\* handshake succeeded in this call (each server is sent one handshake, the
\* failed ones are gone, none was left out), the result of each successful
\* handshake is recorded in serverDetails, and an error is returned exactly
\* when no handshake succeeded.
C3_InitializeAllDropsFailed ==
    op = "InitializeAll" =>
        /\ Len(calls) = Cardinality(Visited)
        /\ clients = Succeeded
        /\ Failed \cap clients = {}
        /\ \A i \in DOMAIN calls :
              calls[i].ok => /\ calls[i].res # <<>>
                             /\ serverDetails[calls[i].ep].Info = calls[i].res
        /\ ret.err # "nil" <=> Succeeded = {}

C3_Witness ==
    /\ op = "InitializeAll"
    /\ Succeeded # {}
    /\ Failed # {}
    /\ ret.err = "nil"
    /\ \A n \in Succeeded : serverDetails[n].Info = InitializeResult(n)

\* C4: after a successful ListAllToolsRaw every server of the registry has
\* returned a catalog, and every tool of every returned catalog has a routing
\* entry that names a server of the registry whose recorded catalog contains
\* the tool.
C4_ListedToolsAreRouted ==
    (op = "ListAllToolsRaw" /\ ret.err = "nil") =>
        /\ DOMAIN ret.all = clients
        /\ \A n \in DOMAIN ret.all : \A t \in Range(ret.all[n]) :
              /\ t \in DOMAIN toolToServer
              /\ toolToServer[t] \in clients
              /\ t \in Range(serverDetails[toolToServer[t]].Tools)

C4_Witness ==
    /\ op = "ListAllToolsRaw"
    /\ ret.err = "nil"
    /\ Cardinality(clients) = 2
    /\ \A n \in clients : serverDetails[n].Info # <<>> /\ ret.all[n] # <<>>
    /\ Cardinality(Range(toolToServer)) = 2

\* the positions of the last handler's ListTools calls that returned tool t
ListedAt(t) == {i \in DOMAIN calls : t \in Range(calls[i].tools)}

Last(S) == CHOOSE i \in S : \A j \in S : j <= i

\* C5: ListAllToolsRaw fails only when a ListTools call fails, never because
\* two servers expose the same tool name, and the routing entry of a tool is
\* the last server visited in this call that returned the tool.
C5_LastWriterWins ==
    op = "ListAllToolsRaw" =>
        /\ Failed = {} => ret.err = "nil"
        /\ \A t \in ToolNames :
              ListedAt(t) # {} => /\ t \in DOMAIN toolToServer
                                  /\ toolToServer[t] = calls[Last(ListedAt(t))].ep

C5_Witness ==
    /\ op = "ListAllToolsRaw"
    /\ ret.err = "nil"
    /\ \E t \in ToolNames :
          /\ Cardinality(ListedAt(t)) = 2
          /\ toolToServer[t] = calls[2].ep
          /\ calls[1].ep # calls[2].ep

\* C6: every entry of the routing table names a server of the registry.
C6_RoutingTargetsRegistered ==
    \A t \in DOMAIN toolToServer : toolToServer[t] \in clients

\* C7: when a ListTools call fails, ListAllToolsRaw and ListToolsJSON return
\* an error and no catalog map, and the failing server, like every server
\* visited, is still in the registry.
C7_ListFailureIsHardError ==
    (op \in {"ListAllToolsRaw", "ListToolsJSON"} /\ Failed # {}) =>
        /\ ret.err = "SSEClientError"
        /\ ret.msg[1] = "ListTools for"
        /\ ret.msg[2] \in Failed
        /\ ret.isNil
        /\ ret.all = EmptyMap
        /\ Failed \subseteq clients
        /\ Visited \subseteq clients

C7_Witness ==
    /\ op = "ListToolsJSON"
    /\ Failed # {}
    /\ Succeeded # {}
    /\ ret.err = "SSEClientError"
    /\ Failed \subseteq clients

\* C8: CallTool with an identifier whose second segment has no routing entry
\* returns the routing error and issues no call on any session, whatever the
\* first segment is.
C8_UnroutedToolIsRoutingError ==
    (op = "CallTool" /\ Len(Segs) >= 2 /\ Segs[2] \notin DOMAIN toolToServer) =>
        /\ RoutingError
        /\ ret.msg[3] = Segs[2]
        /\ calls = <<>>
        /\ phase = "built"

C8_Witness ==
    /\ op = "CallTool"
    /\ Len(Segs) = 2
    /\ Segs[1] \in clients
    /\ Segs[1] \in DOMAIN toolToServer
    /\ Segs[2] \notin DOMAIN toolToServer
    /\ RoutingError
    /\ calls = <<>>

\* C9: CallTool with an identifier without a delimiter returns the routing
\* error; the process does not crash.
C9_NoDelimiterIsRoutingError ==
    (op = "CallTool" /\ "." \notin Range(arg.tool)) =>
        /\ phase # "crashed"
        /\ RoutingError

\* C10: when the second segment has a routing entry, CallTool issues exactly
\* one call, on the session of the server recorded for that segment, and the
\* request names that segment.
C10_RoutedToRecordedServer ==
    (op = "CallTool" /\ Len(Segs) >= 2 /\ Segs[2] \in DOMAIN toolToServer) =>
        /\ Len(calls) = 1
        /\ calls[1].method = "CallTool"
        /\ calls[1].ep = toolToServer[Segs[2]]
        /\ calls[1].req.Name = Segs[2]

\* the session operation of the last CallTool, when it issued one
TheCall == calls[1]

\* whether the last handler was a CallTool that reached its session
Called == op = "CallTool" /\ calls # <<>>

\* whether the last handler was a CallTool whose session returned a result
Answered == Called /\ TheCall.ok

\* C11: the arguments of the request CallTool sends to the session are the
\* mapping it was handed: same keys, same values, nothing added or removed.
C11_ArgumentsPassedUnchanged ==
    op = "CallTool" =>
        \A i \in DOMAIN calls :
            /\ DOMAIN calls[i].req.Arguments = DOMAIN arg.args
            /\ \A k \in DOMAIN arg.args : calls[i].req.Arguments[k] = arg.args[k]

C11_Witness ==
    /\ Called
    /\ DOMAIN arg.args # {}
    /\ TheCall.req.Arguments = arg.args

\* C12: a CallTool issues at most one session operation; when that operation
\* fails it returns the transport error, having called the owning session
\* once and no other session, also when another server lists the same tool.
C12_AtMostOneCallNoFailover ==
    op = "CallTool" =>
        /\ Len(calls) <= 1
        /\ (calls # <<>> /\ ~TheCall.ok) =>
              /\ ret.err = "SSEClientError"
              /\ ret.msg = <<"CallTool", "transport">>
              /\ ret.report = <<>>
              /\ Visited = {toolToServer[Segs[2]]}

C12_Witness ==
    /\ Called
    /\ ~TheCall.ok
    /\ \E other \in clients \ {TheCall.ep} : Segs[2] \in Range(serverDetails[other].Tools)

\* C13: when the session returns a result with no content block, CallTool
\* returns no error and a report made of the completion line, the IsError
\* line and the line "(no content returned)", and nothing else.
C13_EmptyResultReport ==
    (Answered /\ TheCall.res.Content = <<>>) =>
        /\ ret.err = "nil"
        /\ ret.report = <<"Tool '">> \o Segs[2] \o <<"' completed.", "\n",
                           "  IsError: ", ToString(TheCall.res.IsError), "\n",
                           "  (no content returned)", "\n">>

C13_Witness ==
    /\ Answered
    /\ TheCall.res.Content = <<>>
    /\ Len(ret.report) > 0

\* whether the tokens of s stand in r from position `at` on
Occurs(r, s, at) == at + Len(s) - 1 <= Len(r) /\ SubSeq(r, at, at + Len(s) - 1) = s

\* whether s stands somewhere in r
Contains(r, s) == \E at \in 1..Len(r) : Occurs(r, s, at)

\* the content blocks of the result the session returned
Blocks == TheCall.res.Content

\* the first line of the report for content entry number i
BlockHeader(i) == <<"  Content #", ToString(i), ":", "\n">>

\* the prefix CallTool gives every line of a text
IndentPrefix == "      "

\* C14: when the result is one text block with a three-line text, the report
\* holds the three lines, each behind the indent prefix, in their order and
\* unchanged, whatever the type tag of the block is.
C14_TextLinesIndented ==
    (Answered /\ Len(Blocks) = 1 /\ Blocks[1].dyn = "*mcp.TextContent") =>
        LET lines == Split(Blocks[1].Text, "\n")
        IN  /\ Len(lines) = 3
            /\ Contains(ret.report, <<IndentPrefix>> \o lines[1] \o <<"\n">> \o
                                     <<IndentPrefix>> \o lines[2] \o <<"\n">> \o
                                     <<IndentPrefix>> \o lines[3] \o <<"\n">>)

\* whether CallTool has no case for the type of block c
IsUnknown(c) == c.dyn \notin {"*mcp.TextContent", "*mcp.ImageContent"}

\* C15: a content block of a type CallTool has no case for never makes the
\* call fail: the report holds the "Unknown content type" line of the block,
\* after it the header of every later block, and CallTool returns no error.
C15_UnknownBlockFallback ==
    Answered =>
        /\ ret.err = "nil"
        /\ \A i \in DOMAIN Blocks :
              IsUnknown(Blocks[i]) =>
                 \E at \in 1..Len(ret.report) :
                    /\ Occurs(ret.report, BlockHeader(i) \o <<"  TextContent: ">>, at)
                    /\ \E u \in (at + 1)..Len(ret.report) :
                          /\ Occurs(ret.report, <<"    Unknown content type: ", "&", Blocks[i].dyn>>, u)
                          /\ \A j \in (i + 1)..Len(Blocks) :
                                \E h \in (u + 1)..Len(ret.report) : Occurs(ret.report, BlockHeader(j), h)

C15_Witness ==
    /\ Answered
    /\ \E i \in DOMAIN Blocks : IsUnknown(Blocks[i]) /\ i < Len(Blocks)
    /\ Contains(ret.report, <<"    Type: image", "\n">>)

\* payloads an image block may carry
Payloads == {<<"Q", "k">>, <<"Z", "m">>}

\* result res with the payload of its content entry number i replaced by d
WithData(res, i, d) == [res EXCEPT !.Content[i].Data = d]

\* C16: for an image block the report holds the media type and the length of
\* the payload and never the payload: the payload stands nowhere in the
\* report, and a result that differs only in the bytes of the payload, not in
\* their number, gives the same report.
C16_ImagePayloadNotShown ==
    Answered =>
        \A i \in DOMAIN Blocks :
            Blocks[i].dyn = "*mcp.ImageContent" =>
               /\ Contains(ret.report, <<"    MIMEType: ", Blocks[i].MIMEType, "\n">>)
               /\ Contains(ret.report, <<"    Data length: ", ToString(Len(Blocks[i].Data))>>)
               /\ ~Contains(ret.report, Blocks[i].Data)
               /\ \A d \in Payloads :
                     Len(d) = Len(Blocks[i].Data) => Report(Segs[2], WithData(TheCall.res, i, d)) = ret.report

\* C17: Close calls Close on the session of every registered server, also
\* after one of them failed, returns nothing to the caller, and writes a log
\* line for every session whose Close failed.
C17_CloseVisitsAllAndLogsFailures ==
    op = "Close" =>
        /\ Visited = clients
        /\ Len(calls) = Cardinality(clients)
        /\ ret = NoRet
        /\ \A name \in Failed : \E i \in DOMAIN logs : logs[i].ep = name

\* the configuration handed to the last NewMultiClient
Cfg == arg.cfg

\* whether entry sc has exactly one of url and command
ExactlyOneTransport(sc) == sc.url # sc.command

\* C18: NewMultiClient returns an error for every configuration with an
\* entry that has neither url nor command and for every configuration with an
\* entry that has both, and constructs a session only for entries with
\* exactly one of the two.
C18_RejectsNeitherAndBoth ==
    op = "NewMultiClient" =>
        /\ (\E name \in DOMAIN Cfg : ~ExactlyOneTransport(Cfg[name])) => (ret.err # "nil" /\ ret.isNil)
        /\ \A i \in DOMAIN calls : ExactlyOneTransport(Cfg[calls[i].ep])

\* C19: when the construction of one session fails, with either transport,
\* NewMultiClient returns an error and no MultiClient, however many sessions
\* it had constructed before.
C19_ConstructionFailureIsFatal ==
    (op = "NewMultiClient" /\ Failed # {}) =>
        /\ ret.err = "SSEClientError"
        /\ ret.isNil
        /\ phase = "failed"
        /\ clients = {}
        /\ ~calls[Len(calls)].ok

C19_Witness ==
    /\ op = "NewMultiClient"
    /\ Succeeded # {}
    /\ \E i \in DOMAIN calls : ~calls[i].ok /\ calls[i].method = "NewStdioMCPClient"
    /\ ret.isNil

\* C20: ListToolsJSON changes nothing: the registry, the routing table and
\* the catalogs of the servers are after the call what they were before it,
\* and the call issues no operation on any session.
C20_ListToolsJSONIsPure ==
    [][op' = "ListToolsJSON" =>
          /\ clients' = clients
          /\ toolToServer' = toolToServer
          /\ serverDetails' = serverDetails
          /\ calls' = <<>>]_vars

\* the tools the sessions returned to the last handler
Listed == UNION {Range(calls[i].tools) : i \in {j \in DOMAIN calls : calls[j].ok}}

\* C20, amended: ListToolsJSON leaves the registry unchanged but runs the
\* discovery of ListAllToolsRaw: it calls ListTools on sessions of registered
\* servers, one call for a server at most, stores the catalog of every server
\* that answered and routes its tools to it; the record of a server that did
\* not answer and the route of a tool no session returned stay as they were.
C20_ListToolsJSONRunsDiscovery ==
    [][op' = "ListToolsJSON" =>
          /\ clients' = clients
          /\ phase' = phase
          /\ Visited' \subseteq clients
          /\ Len(calls') = Cardinality(Visited')
          /\ \A i \in DOMAIN calls' : calls'[i].method = "ListTools"
          /\ DOMAIN serverDetails' = DOMAIN serverDetails
          /\ \A name \in DOMAIN serverDetails :
                /\ serverDetails'[name].Info = serverDetails[name].Info
                /\ name \notin Succeeded' => serverDetails'[name] = serverDetails[name]
          /\ \A i \in DOMAIN calls' : calls'[i].ok => serverDetails'[calls'[i].ep].Tools = calls'[i].tools
          /\ DOMAIN toolToServer' = DOMAIN toolToServer \cup Listed'
          /\ \A t \in DOMAIN toolToServer \ Listed' : toolToServer'[t] = toolToServer[t]
          /\ \A t \in Listed' : toolToServer'[t] \in Succeeded']_vars

C20_Witness ==
    /\ op = "ListToolsJSON"
    /\ ret.err = "nil"
    /\ \E name \in Succeeded : serverDetails[name].Tools # <<>>
    /\ \E t \in DOMAIN toolToServer : t \notin Listed

\* C21: a call of the notification handler, with a payload that decodes or
\* one that does not, between any two operations of the client, writes a log
\* line and nothing else: the registry, the routing table, the records of the
\* servers and the recorded outcome of the operation before it stay as they
\* were.
C21_NotificationChangesNothing ==
    [][Cardinality(Notes') > Cardinality(Notes) =>
          /\ clients' = clients
          /\ toolToServer' = toolToServer
          /\ serverDetails' = serverDetails
          /\ phase' = phase
          /\ <<op, arg, ret, calls>>' = <<op, arg, ret, calls>>]_vars

C21_Witness ==
    /\ op = "InitializeAll"
    /\ Failed # {}
    /\ clients # {}
    /\ \E i \in Notes : logs[i].text = "[Notification] failed to decode params" /\ logs[i].ep \in clients

\* the servers taken out of the registry because their start or their
\* handshake failed: NewMultiClient makes a record in serverDetails for every
\* session it puts in clients, and only StartAll and InitializeAll delete from
\* clients
Dropped == DOMAIN serverDetails \ clients

\* C22: once the start or the handshake of a server has failed, no later
\* InitializeAll, discovery or CallTool issues an operation on its session,
\* and no entry of the routing table names it.
C22_FailedEndpointTakesNoPart ==
    [][/\ op' \in {"InitializeAll", "ListAllToolsRaw", "ListToolsJSON", "CallTool"} => Visited' \cap Dropped = {}
       /\ Range(toolToServer') \cap Dropped' = {}]_vars

\* the servers whose session NewMultiClient constructed: it makes a record in
\* serverDetails for each, and no handler deletes from serverDetails
Constructed == DOMAIN serverDetails

\* C23: every session NewMultiClient constructed is closed in the end, also
\* the session of a server that was dropped: when Close has returned, Close
\* has been called on every constructed session.
C23_EverySessionClosed ==
    op = "Close" => Constructed \subseteq Visited

\* a step in which main calls handler o
Step(o) == op' = o /\ op # o

\* whether the last handler issued at most one operation on each session
OncePerSession == Len(calls) = Cardinality(Visited)

\* C24: in every run of main the operations on the session of a server come
\* in the order start, initialize, listTools, callTool, each stage issued
\* once, after the stage before it has returned, and only on sessions on
\* which the stage before it succeeded; so callTool goes only to a session
\* that has started, completed its handshake and listed its tools.
C24_StagesInOrder ==
    [][/\ Step("StartAll") =>
             op = "NewMultiClient" /\ Visited' \subseteq Succeeded /\ OncePerSession'
       /\ Step("InitializeAll") =>
             op = "StartAll" /\ Visited' \subseteq Succeeded /\ OncePerSession'
       /\ Step("ListToolsJSON") =>
             op = "InitializeAll" /\ Visited' \subseteq Succeeded /\ OncePerSession'
       /\ Step("CallTool") =>
             op = "ListToolsJSON" /\ Failed = {} /\ Visited' \subseteq Succeeded /\ OncePerSession']_vars

C24_Witness ==
    /\ Called
    /\ TheCall.method = "CallTool"
    /\ Dropped # {}
    /\ serverDetails[TheCall.ep].Info # <<>>
    /\ Segs[2] \in Range(serverDetails[TheCall.ep].Tools)

\* C25: a CallTool, whether it returns a report, a routing error or a
\* transport error, leaves the registry, the routing table and the records of
\* the servers as they were.
C25_CallToolOnlyReads ==
    [][op' = "CallTool" =>
          /\ clients' = clients
          /\ toolToServer' = toolToServer
          /\ serverDetails' = serverDetails]_vars

C25_Witness ==
    /\ Called
    /\ ~TheCall.ok
    /\ ret.err = "SSEClientError"
    /\ DOMAIN toolToServer = ToolNames
    /\ Cardinality(clients) = 2

\* the first two lines of a report for tool `name` and error flag `flag`
Header(name, flag) ==
    <<"Tool '">> \o name \o <<"' completed.", "\n", "  IsError: ", ToString(flag), "\n">>

\* C26: the report starts with a line naming the second segment of the
\* identifier and a line with the IsError flag as the session returned it; a
\* result with IsError true is rendered and returned with a nil error, and a
\* CallTool that reached the session returns an error exactly when the
\* session call failed.
C26_HeaderNamesToolAndFlag ==
    Called =>
        /\ ret.err # "nil" <=> ~TheCall.ok
        /\ TheCall.ok =>
              /\ Occurs(ret.report, Header(Segs[2], TheCall.res.IsError), 1)
              /\ TheCall.req.Name = Segs[2]

C26_Witness ==
    /\ Answered
    /\ TheCall.res.IsError
    /\ ret.err = "nil"
    /\ Contains(ret.report, <<"  IsError: ", ToString(TRUE)>>)

\* C27: after every successful ListAllToolsRaw the routing table has an
\* entry for exactly the tools in the catalogs the sessions just returned: an
\* entry for a tool that no server lists any more does not survive.
C27_RoutingTableRebuilt ==
    (op = "ListAllToolsRaw" /\ ret.err = "nil") => DOMAIN toolToServer = Listed

\* C28: a server dropped by StartAll or InitializeAll has no record left:
\* once the MultiClient is constructed, serverDetails and clients have the
\* same key set.
C28_SameKeySets ==
    phase = "built" => DOMAIN serverDetails = clients

\* C30: a ListAllToolsRaw in which a ListTools fails issues no ListTools
\* after the failure, and what it wrote before the failure stays: the catalog
\* of every server listed before it is in serverDetails and every tool of
\* these catalogs is routed to a server listed in this call.
C30_DiscoveryStopsAtFailure ==
    (op = "ListAllToolsRaw" /\ Failed # {}) =>
        /\ ~calls[Len(calls)].ok
        /\ \A i \in 1..(Len(calls) - 1) : calls[i].ok
        /\ OncePerSession
        /\ ret.err = "SSEClientError"
        /\ \A i \in 1..(Len(calls) - 1) :
              /\ serverDetails[calls[i].ep].Tools = calls[i].tools
              /\ \A t \in Range(calls[i].tools) :
                    t \in DOMAIN toolToServer /\ toolToServer[t] \in Succeeded

C30_Witness ==
    /\ op = "ListAllToolsRaw"
    /\ Len(calls) = 2
    /\ calls[1].ok /\ calls[1].tools # <<>>
    /\ ~calls[2].ok
    /\ toolToServer[calls[1].tools[1]] = calls[1].ep

\* C29: on every path on which main ends after NewMultiClient returned a
\* MultiClient, also the paths through log.Fatalf, Close has run on the
\* MultiClient before the process exits, so that every session still in the
\* registry is closed.  (A process that has exited with NewMultiClient as its
\* last handler never had a MultiClient.)
C29_CloseOnEveryExit ==
    (phase = "exited" /\ op # "NewMultiClient") =>
        /\ op = "Close"
        /\ Visited = clients
====
